---- MODULE Spec2Model ----
(***************************************************************************)
(* Model of server/lib/document_sql_extractor.py: the pipeline that turns  *)
(* a JSON request (base64 payload, file name, MIME type) into the JSON     *)
(* object {"text": ...}.                                                   *)
(*                                                                         *)
(* Text is a sequence of one-character strings.  Python's None is the      *)
(* empty tuple where an optional text is expected (Opt), a raised          *)
(* exception is a record whose field ok is FALSE.                          *)
(***************************************************************************)
EXTENDS Integers, Sequences, FiniteSets, TLC

VARIABLES pc, stdin, base64_data, name, mime, normalised_base64, kind,
          raw_bytes, text, stdout, calls, structured,
          wdoc, wout, cellIn, cellOut, fbArchive, fbOut

vars == <<pc, stdin, base64_data, name, mime, normalised_base64, kind,
          raw_bytes, text, stdout, calls, structured,
          wdoc, wout, cellIn, cellOut, fbArchive, fbOut>>

mainVars == <<stdin, base64_data, name, mime, normalised_base64, kind,
              raw_bytes, text, stdout, calls, structured>>

pureVars == <<wdoc, wout, cellIn, cellOut, fbArchive, fbOut>>

-----------------------------------------------------------------------------
(* Bounds of the model.                                                    *)

\* longest base64 body (before a data-URI prefix and surrounding blanks)
MaxPayloadLen == 4
\* most w:t runs below the root of a generated word/document.xml
MaxRuns == 3
\* most entries of a generated shared-string table
MaxTable == 2

-----------------------------------------------------------------------------
(* Python str operations.                                                  *)

\* str.strip() with no argument removes these (the ASCII ones in use here)
IsSpace(c) == c \in {" ", "\t", "\n", "\r"}

\* str.strip()
Strip(s) ==
  LET solid == {i \in 1..Len(s) : ~IsSpace(s[i])}
  IN  IF solid = {} THEN <<>>
      ELSE SubSeq(s, CHOOSE i \in solid : \A j \in solid : i <= j,
                     CHOOSE i \in solid : \A j \in solid : j <= i)

StartsWith(s, p) == Len(p) <= Len(s) /\ SubSeq(s, 1, Len(p)) = p

EndsWith(s, p) ==
  Len(p) <= Len(s) /\ SubSeq(s, Len(s) - Len(p) + 1, Len(s)) = p

\* `sub in s`
Contains(s, sub) ==
  \E i \in 1..(Len(s) - Len(sub) + 1) : SubSeq(s, i, i + Len(sub) - 1) = sub

\* s.find(c) for a one-character c, 1-based; 0 stands for Python's -1
Find(s, c) ==
  IF \E i \in 1..Len(s) : s[i] = c
  THEN CHOOSE i \in 1..Len(s) : s[i] = c /\ \A j \in 1..(i - 1) : s[j] # c
  ELSE 0

UpperLetters ==
  <<"A","B","C","D","E","F","G","H","I","J","K","L","M",
    "N","O","P","Q","R","S","T","U","V","W","X","Y","Z">>

LowerLetters ==
  <<"a","b","c","d","e","f","g","h","i","j","k","l","m",
    "n","o","p","q","r","s","t","u","v","w","x","y","z">>

LowerChar(c) ==
  IF \E i \in 1..26 : UpperLetters[i] = c
  THEN LowerLetters[CHOOSE i \in 1..26 : UpperLetters[i] = c]
  ELSE c

\* str.lower()
Lower(s) == [i \in 1..Len(s) |-> LowerChar(s[i])]

\* the concatenation of parts[lo..hi]
RECURSIVE FlattenRange(_, _, _)
FlattenRange(parts, lo, hi) ==
  IF lo > hi THEN <<>>
  ELSE IF lo = hi THEN parts[lo]
  ELSE FlattenRange(parts, lo, (lo + hi) \div 2)
       \o FlattenRange(parts, (lo + hi) \div 2 + 1, hi)

\* "".join(parts)
Concat(parts) == FlattenRange(parts, 1, Len(parts))

\* s.replace(pat, rep).  Every pattern the program replaces is one character
\* or an entity "&...;", so two occurrences never overlap and each match is
\* replaced.
Replace(s, pat, rep) ==
  LET match(i) == i >= 1 /\ i + Len(pat) - 1 <= Len(s)
                  /\ SubSeq(s, i, i + Len(pat) - 1) = pat
      covered(i) == \E j \in (i - Len(pat) + 1)..(i - 1) : match(j)
  IN  Concat([i \in 1..Len(s) |->
                IF match(i) THEN rep
                ELSE IF covered(i) THEN <<>> ELSE <<s[i]>>])

\* s.split(): the maximal runs of non-blank characters
Split(s) ==
  LET index == [i \in 1..Len(s) |-> i]
      starts == SelectSeq(index,
                  LAMBDA i : ~IsSpace(s[i]) /\ (i = 1 \/ IsSpace(s[i - 1])))
      last(i) == CHOOSE j \in i..Len(s) :
                   /\ \A k \in i..j : ~IsSpace(s[k])
                   /\ (j = Len(s) \/ IsSpace(s[j + 1]))
  IN  [n \in 1..Len(starts) |-> SubSeq(s, starts[n], last(starts[n]))]

\* sep.join(parts)
Join(sep, parts) ==
  Concat([i \in 1..Len(parts) |-> IF i = 1 THEN parts[i] ELSE sep \o parts[i]])

NL == <<"\n">>
SP == <<" ">>

\* all sequences over S of length at most n
RECURSIVE SeqsUpTo(_, _)
SeqsUpTo(S, n) ==
  IF n = 0 THEN {<<>>}
  ELSE LET shorter == SeqsUpTo(S, n - 1)
       IN  shorter \cup {Append(q, e) : q \in shorter, e \in S}

-----------------------------------------------------------------------------
(* JSON values of the request, and what main() reads from them.            *)

Missing == [t |-> "missing", s |-> <<>>]   \* key absent: dict.get gives None
Null    == [t |-> "null",    s |-> <<>>]
Zero    == [t |-> "number",  s |-> <<"0">>]
Five    == [t |-> "number",  s |-> <<"5">>]
AList   == [t |-> "array",   s |-> <<"[", "1", "]">>]
Str(s)  == [t |-> "string",  s |-> s]
EmptyStr == Str(<<>>)

\* Python truth value
Truthy(v) ==
  CASE v.t = "missing" -> FALSE
    [] v.t = "null"    -> FALSE
    [] v.t = "number"  -> v # Zero
    [] v.t = "string"  -> v.s # <<>>
    [] OTHER           -> TRUE

\* a or b
Or(a, b) == IF Truthy(a) THEN a ELSE b

\* what json.loads makes of standard input: "invalid" raises inside it
Obj(b, d, n, m) ==
  [shape |-> "object", base64 |-> b, data |-> d, name |-> n, mime |-> m]

NonObject(shape) ==
  [shape |-> shape, base64 |-> Missing, data |-> Missing,
   name |-> Missing, mime |-> Missing]

\* _safe_load_json: json.loads, and {} when it raises
safe_load_json(input) ==
  IF input.shape = "invalid" THEN Obj(Missing, Missing, Missing, Missing)
  ELSE input

-----------------------------------------------------------------------------
(* Payload Decoder.                                                        *)

DataPrefix == <<"d", "a", "t", "a", ":">>

\* variant: the data-URI prefix is never cut off
normalise_keep_prefix(v) == IF ~Truthy(v) THEN <<>> ELSE Strip(v.s)

\* _normalise_base64_payload, for an argument that is falsy or a string
normalise_base64_payload(v) ==
  IF ~Truthy(v) THEN <<>>
  ELSE LET trimmed == Strip(v.s)
           comma == Find(trimmed, ",")
       IN  IF ~StartsWith(trimmed, DataPrefix) THEN trimmed
           ELSE IF comma = 0 THEN trimmed
           ELSE SubSeq(trimmed, comma + 1, Len(trimmed))

\* the standard base64 alphabet; a character's value is its position - 1
B64Alphabet ==
  UpperLetters \o LowerLetters \o
  <<"0","1","2","3","4","5","6","7","8","9","+","/">>

B64Val(c) ==
  IF \E i \in 1..64 : B64Alphabet[i] = c
  THEN (CHOOSE i \in 1..64 : B64Alphabet[i] = c) - 1
  ELSE 64

\* characters str.encode("ascii") rejects
NonAscii == {"é"}

\* binascii.a2b_base64 in its default, non-strict mode: characters outside
\* the alphabet are skipped, "=" ends the data once a quad is complete.
RECURSIVE B64Scan(_, _, _, _, _)
B64Scan(s, quad, left, pads, out) ==
  IF s = <<>>
  THEN IF quad = 0 THEN [ok |-> TRUE, bytes |-> out]
       ELSE [ok |-> FALSE, bytes |-> <<>>]
  ELSE LET c == Head(s)
           v == B64Val(c)
       IN  IF c = "="
           THEN IF quad >= 2 /\ quad + pads + 1 >= 4
                THEN [ok |-> TRUE, bytes |-> out]
                ELSE B64Scan(Tail(s), quad, left,
                             IF quad >= 2 THEN pads + 1 ELSE pads, out)
           ELSE IF v = 64 THEN B64Scan(Tail(s), quad, left, pads, out)
           ELSE CASE quad = 0 -> B64Scan(Tail(s), 1, v, 0, out)
                  [] quad = 1 ->
                       B64Scan(Tail(s), 2, v % 16, 0,
                               Append(out, (left * 4 + v \div 16) % 256))
                  [] quad = 2 ->
                       B64Scan(Tail(s), 3, v % 4, 0,
                               Append(out, (left * 16 + v \div 4) % 256))
                  [] quad = 3 ->
                       B64Scan(Tail(s), 0, 0, 0,
                               Append(out, (left * 64 + v) % 256))

\* base64.b64decode(s) for a str s; ok = FALSE when it raises
b64decode(s) ==
  IF \E i \in 1..Len(s) : s[i] \in NonAscii
  THEN [ok |-> FALSE, bytes |-> <<>>]
  ELSE B64Scan(s, 0, 0, 0, <<>>)

-----------------------------------------------------------------------------
(* Kind Classifier.                                                        *)

DotDocx == <<".", "d", "o", "c", "x">>
DotDoc  == <<".", "d", "o", "c">>
DotXlsx == <<".", "x", "l", "s", "x">>
DotXls  == <<".", "x", "l", "s">>
WordMl  ==
  <<"w","o","r","d","p","r","o","c","e","s","s","i","n","g","m","l">>
SheetMl ==
  <<"s","p","r","e","a","d","s","h","e","e","t","m","l">>

\* (x or "").lower() raises AttributeError for a truthy x that is no string
LowerRaises(v) == Truthy(v) /\ v.t # "string"
LowerOf(v) == IF Truthy(v) THEN Lower(v.s) ELSE <<>>

\* detect_kind(name, mime); the mime is only looked at when the name's
\* suffix does not decide (Python's `or` short-circuits)
detect_kind(n, m) ==
  IF LowerRaises(n) THEN [ok |-> FALSE, kind |-> ""]
  ELSE LET lower_name == LowerOf(n)
       IN  IF EndsWith(lower_name, DotDocx) \/ EndsWith(lower_name, DotDoc)
           THEN [ok |-> TRUE, kind |-> "word"]
           ELSE IF LowerRaises(m) THEN [ok |-> FALSE, kind |-> ""]
           ELSE IF Contains(LowerOf(m), WordMl)
           THEN [ok |-> TRUE, kind |-> "word"]
           ELSE IF EndsWith(lower_name, DotXlsx) \/ EndsWith(lower_name, DotXls)
                   \/ Contains(LowerOf(m), SheetMl)
           THEN [ok |-> TRUE, kind |-> "excel"]
           ELSE [ok |-> TRUE, kind |-> ""]

-----------------------------------------------------------------------------
(* XML entries.  An entry's bytes are a sequence of tokens (start tag, end  *)
(* tag, character data); Raw gives their characters, fromstring the tree   *)
(* ElementTree builds from them.  Tags are written with the prefixes the   *)
(* two namespace maps WORD_NS and SHEET_NS bind.                           *)

None == <<>>
Some(x) == <<x>>
\* o or ""
OrEmpty(o) == IF o = None THEN <<>> ELSE o[1]

WT   == <<"w", ":", "t">>
WP   == <<"w", ":", "p">>
WDoc == <<"w", ":", "d">>
ST   == <<"s", ":", "t">>
SV   == <<"s", ":", "v">>
SC   == <<"s", ":", "c">>
SIS  == <<"s", ":", "i", "s">>
SRow == <<"s", ":", "r", "o", "w">>
SSst == <<"s", ":", "s", "s", "t">>
SWs  == <<"s", ":", "w", "s">>
XA   == <<"a">>

Open(tag)      == [k |-> "open",  tag |-> tag, t |-> <<>>, s |-> <<>>]
OpenT(tag, t)  == [k |-> "open",  tag |-> tag, t |-> t,    s |-> <<>>]
Close(tag)     == [k |-> "close", tag |-> tag, t |-> <<>>, s |-> <<>>]
Chars(s)       == [k |-> "text",  tag |-> <<>>, t |-> <<>>, s |-> s]

\* the characters of one token as they stand in the entry
RawToken(tok) ==
  CASE tok.k = "open" ->
         <<"<">> \o tok.tag
         \o (IF tok.t = <<>> THEN <<>>
             ELSE <<" ", "t", "=", "\"">> \o tok.t \o <<"\"">>)
         \o <<">">>
    [] tok.k = "close" -> <<"<", "/">> \o tok.tag \o <<">">>
    [] OTHER -> tok.s

Raw(toks) == Concat([i \in 1..Len(toks) |-> RawToken(toks[i])])

EntLt   == <<"&", "l", "t", ";">>
EntGt   == <<"&", "g", "t", ";">>
EntAmp  == <<"&", "a", "m", "p", ";">>
EntQuot == <<"&", "q", "u", "o", "t", ";">>
EntApos == <<"&", "a", "p", "o", "s", ";">>

\* character data as the XML parser reads it: one pass, each predefined
\* entity becomes its character; ok = FALSE for a bare "&" or "<"
RECURSIVE XmlCharData(_)
XmlCharData(s) ==
  IF s = <<>> THEN [ok |-> TRUE, s |-> <<>>]
  ELSE LET ent(e, c) ==
             LET rest == XmlCharData(SubSeq(s, Len(e) + 1, Len(s)))
             IN  [ok |-> rest.ok, s |-> <<c>> \o rest.s]
       IN  CASE StartsWith(s, EntLt)   -> ent(EntLt, "<")
             [] StartsWith(s, EntGt)   -> ent(EntGt, ">")
             [] StartsWith(s, EntAmp)  -> ent(EntAmp, "&")
             [] StartsWith(s, EntQuot) -> ent(EntQuot, "\"")
             [] StartsWith(s, EntApos) -> ent(EntApos, "'")
             [] OTHER ->
                  IF Head(s) \in {"&", "<"} THEN [ok |-> FALSE, s |-> <<>>]
                  ELSE LET rest == XmlCharData(Tail(s))
                       IN  [ok |-> rest.ok, s |-> <<Head(s)>> \o rest.s]

ParseFail == [ok |-> FALSE, nodes |-> <<>>, next |-> 0]

\* ParseContent(toks, i): the elements from token i up to the next unmatched
\* end tag (or the end); character data between elements is their tail and
\* is only checked.  Each element is [tag, t, text, children], text being
\* the character data right after its start tag (None when there is none).
RECURSIVE ParseContent(_, _)
ParseContent(toks, i) ==
  IF i > Len(toks) \/ toks[i].k = "close"
  THEN [ok |-> TRUE, nodes |-> <<>>, next |-> i]
  ELSE IF toks[i].k = "text"
  THEN IF XmlCharData(toks[i].s).ok THEN ParseContent(toks, i + 1) ELSE ParseFail
  ELSE LET hasText == i + 1 <= Len(toks) /\ toks[i + 1].k = "text"
           data == IF hasText THEN XmlCharData(toks[i + 1].s)
                   ELSE [ok |-> TRUE, s |-> <<>>]
           inner == ParseContent(toks, IF hasText THEN i + 2 ELSE i + 1)
       IN  IF ~data.ok \/ ~inner.ok THEN ParseFail
           ELSE IF inner.next > Len(toks) \/ toks[inner.next].tag # toks[i].tag
           THEN ParseFail
           ELSE LET node == [tag |-> toks[i].tag, t |-> toks[i].t,
                             text |-> IF hasText THEN Some(data.s) ELSE None,
                             children |-> inner.nodes]
                    rest == ParseContent(toks, inner.next + 1)
                IN  IF rest.ok
                    THEN [ok |-> TRUE, nodes |-> <<node>> \o rest.nodes,
                          next |-> rest.next]
                    ELSE ParseFail

NoNode == [tag |-> <<>>, t |-> <<>>, text |-> None, children |-> <<>>]

\* ET.fromstring: exactly one root element, only blanks around it;
\* ok = FALSE stands for ParseError
fromstring(toks) ==
  LET p == ParseContent(toks, 1)
      blankAround ==
        \A i \in 1..Len(toks) :
          (toks[i].k = "text" /\ (i = 1 \/ i = Len(toks))) => Strip(toks[i].s) = <<>>
  IN  IF p.ok /\ p.next = Len(toks) + 1 /\ Len(p.nodes) = 1 /\ blankAround
      THEN [ok |-> TRUE, root |-> p.nodes[1]]
      ELSE [ok |-> FALSE, root |-> NoNode]

\* the elements below the given ones, in document order
RECURSIVE DescSeq(_)
DescSeq(nodes) ==
  IF nodes = <<>> THEN <<>>
  ELSE <<Head(nodes)>> \o DescSeq(Head(nodes).children) \o DescSeq(Tail(nodes))

\* node.findall(".//tag"): every element below node (never node itself)
FindAllDeep(node, tag) ==
  SelectSeq(DescSeq(node.children), LAMBDA n : n.tag = tag)

\* node.findall("tag"): the direct children
FindAll(node, tag) == SelectSeq(node.children, LAMBDA n : n.tag = tag)

\* node.find("tag"): the first direct child, None when there is none
FindFirst(node, tag) ==
  IF FindAll(node, tag) = <<>> THEN None ELSE Some(FindAll(node, tag)[1])

-----------------------------------------------------------------------------
(* Container Reader: zipfile.ZipFile over a byte buffer.  An archive is the *)
(* sequence of its entries [name, content] in directory order.             *)

Entry(n, toks) == [name |-> n, content |-> toks]

NameDocument == <<"w", "o", "r", "d", "/", "d", "o", "c", "u", "m", "e", "n", "t", ".", "x", "m", "l">>
NameShared   == <<"x", "l", "/", "s", "h", "a", "r", "e", "d", "S", "t", "r", "i", "n", "g", "s", ".", "x", "m", "l">>
DirSheets    == <<"x", "l", "/", "w", "o", "r", "k", "s", "h", "e", "e", "t", "s", "/">>
DotXml       == <<".", "x", "m", "l">>
NameSheet1   == <<"x", "l", "/", "w", "o", "r", "k", "s", "h", "e", "e", "t", "s", "/", "s", "1", ".", "x", "m", "l">>
NameSheet2   == <<"x", "l", "/", "w", "o", "r", "k", "s", "h", "e", "e", "t", "s", "/", "s", "2", ".", "x", "m", "l">>
NameSheetUp  == <<"x", "l", "/", "w", "o", "r", "k", "s", "h", "e", "e", "t", "s", "/", "S", "3", ".", "X", "M", "L">>
NameProps    == <<"d", "o", "c", "P", "r", "o", "p", "s", "/", "a", "p", "p", ".", "x", "m", "l">>
NameRels     == <<"_", "r", "e", "l", "s", "/", ".", "r", "e", "l", "s">>

HasEntry(archive, n) == \E i \in 1..Len(archive) : archive[i].name = n

\* archive.read(name), for a name HasEntry finds (KeyError otherwise)
ReadEntry(archive, n) ==
  archive[CHOOSE i \in 1..Len(archive) : archive[i].name = n].content

-----------------------------------------------------------------------------
(* Word Text Extractor.                                                    *)

Raise == [ok |-> FALSE, text |-> <<>>]
Return(s) == [ok |-> TRUE, text |-> s]

NotBlank(s) == Strip(s) # <<>>

\* variant: only runs without any text are dropped
word_text_keep_blank(archive) ==
  IF ~HasEntry(archive, NameDocument) THEN Return(<<>>)
  ELSE LET doc == fromstring(ReadEntry(archive, NameDocument))
       IN  IF ~doc.ok THEN Raise
           ELSE LET nodes == FindAllDeep(doc.root, WT)
                    texts == [i \in 1..Len(nodes) |-> OrEmpty(nodes[i].text)]
                IN  Return(Join(NL, SelectSeq(texts, LAMBDA t : t # <<>>)))

\* extract_word_text on an opened archive
word_text(archive) ==
  IF ~HasEntry(archive, NameDocument) THEN Return(<<>>)
  ELSE LET doc == fromstring(ReadEntry(archive, NameDocument))
       IN  IF ~doc.ok THEN Raise
           ELSE LET nodes == FindAllDeep(doc.root, WT)
                    texts == [i \in 1..Len(nodes) |-> OrEmpty(nodes[i].text)]
                IN  Return(Join(NL, SelectSeq(texts, NotBlank)))

-----------------------------------------------------------------------------
(* Spreadsheet Text Extractor.                                             *)

\* _load_shared_strings; ok = FALSE when the entry does not parse
load_shared_strings(archive) ==
  IF ~HasEntry(archive, NameShared) THEN [ok |-> TRUE, values |-> <<>>]
  ELSE LET doc == fromstring(ReadEntry(archive, NameShared))
       IN  IF ~doc.ok THEN [ok |-> FALSE, values |-> <<>>]
           ELSE LET nodes == FindAllDeep(doc.root, ST)
                IN  [ok |-> TRUE,
                     values |-> [i \in 1..Len(nodes) |-> OrEmpty(nodes[i].text)]]

Digits == <<"0", "1", "2", "3", "4", "5", "6", "7", "8", "9">>
IsDigit(c) == \E i \in 1..10 : Digits[i] = c
DigitVal(c) == (CHOOSE i \in 1..10 : Digits[i] = c) - 1

RECURSIVE DigitsVal(_, _)
DigitsVal(s, acc) ==
  IF s = <<>> THEN acc ELSE DigitsVal(Tail(s), acc * 10 + DigitVal(Head(s)))

\* int(s): blanks around, an optional sign, decimal digits; ok = FALSE
\* stands for ValueError
ParseInt(s) ==
  LET body == Strip(s)
      signed == body # <<>> /\ Head(body) \in {"+", "-"}
      digits == IF signed THEN Tail(body) ELSE body
  IN  IF digits # <<>> /\ \A i \in 1..Len(digits) : IsDigit(digits[i])
      THEN [ok |-> TRUE,
            val |-> IF signed /\ Head(body) = "-"
                    THEN 0 - DigitsVal(digits, 0) ELSE DigitsVal(digits, 0)]
      ELSE [ok |-> FALSE, val |-> 0]

TypeShared == <<"s">>

\* variant: a reference outside the table falls through to the value text
cell_value_fallthrough(cell, shared_strings) ==
  LET value == FindFirst(cell, SV)
      index == IF value # None /\ value[1].text # None
               THEN ParseInt(value[1].text[1]) ELSE [ok |-> FALSE, val |-> 0]
  IN  IF cell.t = TypeShared /\ index.ok /\ 0 <= index.val
         /\ index.val < Len(shared_strings)
      THEN Some(shared_strings[index.val + 1])
      ELSE IF value # None THEN value[1].text
      ELSE Some(<<>>)

\* variant: the inline texts are joined with a blank
cell_value_spaced(cell, shared_strings) ==
  LET value == FindFirst(cell, SV)
      inline == FindFirst(cell, SIS)
      nodes == IF inline = None THEN <<>> ELSE FindAllDeep(inline[1], ST)
      texts == [i \in 1..Len(nodes) |-> OrEmpty(nodes[i].text)]
  IN  IF cell.t = TypeShared THEN Some(<<>>)
      ELSE IF inline # None /\ texts # <<>> THEN Some(Join(SP, texts))
      ELSE IF value # None THEN value[1].text
      ELSE Some(<<>>)

\* _cell_value: Some(string), or None where the code returns value.text of
\* a value node without text
cell_value(cell, shared_strings) ==
  LET value == FindFirst(cell, SV)
      inline == FindFirst(cell, SIS)
      nodes == IF inline = None THEN <<>> ELSE FindAllDeep(inline[1], ST)
      texts == [i \in 1..Len(nodes) |-> OrEmpty(nodes[i].text)]
  IN  IF cell.t = TypeShared
      THEN IF value # None /\ value[1].text # None
           THEN LET index == ParseInt(value[1].text[1])
                IN  IF index.ok /\ 0 <= index.val /\ index.val < Len(shared_strings)
                    THEN Some(shared_strings[index.val + 1])
                    ELSE Some(<<>>)
           ELSE Some(<<>>)
      ELSE IF inline # None /\ texts # <<>> THEN Some(Concat(texts))
      ELSE IF value # None THEN value[1].text
      ELSE Some(<<>>)

\* one row's line: trimmed non-empty cell values joined by a blank
row_text(row, shared_strings) ==
  LET cs == FindAll(row, SC)
      cells == [i \in 1..Len(cs) |-> Strip(OrEmpty(cell_value(cs[i], shared_strings)))]
  IN  Join(SP, SelectSeq(cells, LAMBDA c : c # <<>>))

\* the rows list after one worksheet's rows are appended
sheet_rows(root, shared_strings, rows) ==
  LET rs == FindAllDeep(root, SRow)
      lines == [i \in 1..Len(rs) |-> row_text(rs[i], shared_strings)]
  IN  rows \o SelectSeq(lines, LAMBDA l : l # <<>>)

IsWorksheet(n) == StartsWith(n, DirSheets) /\ EndsWith(n, DotXml)

\* variant: a worksheet that does not parse is skipped
RECURSIVE excel_loop_skip(_, _, _, _)
excel_loop_skip(archive, i, shared_strings, rows) ==
  IF i > Len(archive) THEN Return(Join(NL, rows))
  ELSE IF ~IsWorksheet(archive[i].name)
          \/ ~fromstring(ReadEntry(archive, archive[i].name)).ok
  THEN excel_loop_skip(archive, i + 1, shared_strings, rows)
  ELSE excel_loop_skip(archive, i + 1, shared_strings,
         sheet_rows(fromstring(ReadEntry(archive, archive[i].name)).root,
                    shared_strings, rows))

\* the loop over archive.namelist() from entry i on; a worksheet that does
\* not parse raises out of the loop
RECURSIVE excel_loop(_, _, _, _)
excel_loop(archive, i, shared_strings, rows) ==
  IF i > Len(archive) THEN Return(Join(NL, rows))
  ELSE IF ~IsWorksheet(archive[i].name)
  THEN excel_loop(archive, i + 1, shared_strings, rows)
  ELSE LET doc == fromstring(ReadEntry(archive, archive[i].name))
       IN  IF ~doc.ok THEN Raise
           ELSE excel_loop(archive, i + 1, shared_strings,
                           sheet_rows(doc.root, shared_strings, rows))

\* extract_excel_text on an opened archive
excel_text(archive) ==
  LET shared == load_shared_strings(archive)
  IN  IF ~shared.ok THEN Raise
      ELSE excel_loop(archive, 1, shared.values, <<>>)

-----------------------------------------------------------------------------
(* Fallback Flattener.                                                     *)

\* _decode_entities: five replacements one after the other
decode_entities(s) ==
  Replace(Replace(Replace(Replace(Replace(s,
    EntQuot, <<"\"">>), EntApos, <<"'">>), EntLt, <<"<">>), EntGt, <<">">>),
    EntAmp, <<"&">>)

\* _strip_xml_tags: the list of blank-separated words
strip_xml_tags(xml_text) ==
  Split(Replace(Replace(Replace(Replace(Replace(decode_entities(xml_text),
    <<"\r">>, SP), <<"\n">>, SP), <<"\t">>, SP),
    <<"<">>, <<" ", "<">>), <<">">>, <<">", " ">>))

\* the loop of extract_fallback_xml_text from entry i on
RECURSIVE fallback_loop(_, _, _)
fallback_loop(archive, i, rows) ==
  IF i > Len(archive) THEN Return(Join(NL, rows))
  ELSE IF ~EndsWith(Lower(archive[i].name), DotXml)
  THEN fallback_loop(archive, i + 1, rows)
  ELSE LET flattened == Join(SP, strip_xml_tags(Raw(archive[i].content)))
       IN  fallback_loop(archive, i + 1,
                         IF Strip(flattened) # <<>>
                         THEN Append(rows, Strip(flattened)) ELSE rows)

\* extract_fallback_xml_text on an opened archive
fallback_xml_text(archive) == fallback_loop(archive, 1, <<>>)

-----------------------------------------------------------------------------
(* The byte buffers of the model that are ZIP containers, and what each    *)
(* holds; every other buffer makes zipfile.ZipFile raise BadZipFile.       *)

Run(s) == <<Open(WT), Chars(s), Close(WT)>>
RefCell(v) == <<OpenT(SC, TypeShared), Open(SV), Chars(v), Close(SV), Close(SC)>>
ValCell(v) == <<Open(SC), Open(SV), Chars(v), Close(SV), Close(SC)>>
InlineCell(s) ==
  <<Open(SC), Open(SIS), Open(ST), Chars(s), Close(ST), Close(SIS), Close(SC)>>

DocHi ==
  <<Open(WDoc), Open(WP)>> \o Run(<<"h", "i">>) \o Run(<<" ">>) \o Run(<<"y", "o">>)
  \o <<Close(WP), Close(WDoc)>>
DocBlank == <<Open(WDoc)>> \o Run(<<" ">>) \o <<Close(WDoc)>>
DocBroken == <<Open(WDoc), Open(WT), Chars(<<"h", "i">>), Close(WDoc)>>
Props == <<Open(XA), Chars(<<"m", "&", "a", "m", "p", ";", "m">>), Close(XA)>>
Sst == <<Open(SSst)>> \o <<Open(ST), Chars(<<"A">>), Close(ST)>>
       \o <<Open(ST), Chars(<<"B">>), Close(ST), Close(SSst)>>
Sheet1 ==
  <<Open(SWs), Open(SRow)>> \o RefCell(<<"0">>) \o InlineCell(<<"C">>) \o ValCell(<<"5">>)
  \o <<Close(SRow), Open(SRow)>> \o RefCell(<<"9", "9">>) \o ValCell(<<"X">>)
  \o <<Close(SRow), Close(SWs)>>
SheetBroken == <<Open(SWs), Open(SRow), Close(SWs)>>

ArchWord        == <<Entry(NameDocument, DocHi), Entry(NameProps, Props)>>
ArchWordBlank   == <<Entry(NameRels, Props), Entry(NameDocument, DocBlank),
                     Entry(NameProps, Props)>>
ArchWordBroken  == <<Entry(NameDocument, DocBroken)>>
ArchExcel       == <<Entry(NameShared, Sst), Entry(NameSheet1, Sheet1)>>
ArchExcelBroken == <<Entry(NameShared, Sst), Entry(NameSheet1, Sheet1),
                     Entry(NameSheet2, SheetBroken)>>
ArchBrokenSst   == <<Entry(NameShared, SheetBroken), Entry(NameSheet1, Sheet1)>>
ArchUpperXml    == <<Entry(NameSheetUp, SheetBroken), Entry(NameSheet1, Sheet1)>>
ArchEmpty       == <<>>

Containers ==
  << <<0>>, <<1>>, <<64>>, <<65>>, <<0, 0>>, <<0, 4>>, <<1, 0>>, <<1, 4>> >>

Contents ==
  <<ArchWord, ArchWordBlank, ArchWordBroken, ArchExcel,
    ArchExcelBroken, ArchBrokenSst, ArchUpperXml, ArchEmpty>>

\* zipfile.ZipFile(io.BytesIO(buff)); ok = FALSE stands for BadZipFile
ZipFile(buff) ==
  IF \E i \in 1..Len(Containers) : Containers[i] = buff
  THEN [ok |-> TRUE,
        archive |-> Contents[CHOOSE i \in 1..Len(Containers) : Containers[i] = buff]]
  ELSE [ok |-> FALSE, archive |-> <<>>]

extract_word_text(buff) ==
  IF ZipFile(buff).ok THEN word_text(ZipFile(buff).archive) ELSE Raise

extract_excel_text(buff) ==
  IF ZipFile(buff).ok THEN excel_text(ZipFile(buff).archive) ELSE Raise

extract_fallback_xml_text(buff) ==
  IF ZipFile(buff).ok THEN fallback_xml_text(ZipFile(buff).archive) ELSE Raise

-----------------------------------------------------------------------------
(* The requests main() is run on.                                          *)

\* base64 bodies: data characters and padding
Bodies == SeqsUpTo({"A", "Q", "="}, MaxPayloadLen)

\* a body as it stands, with a character outside the alphabet after its
\* first character, or with a non-ASCII character in front
Spoiled(b) ==
  {b, <<"é">> \o b}
  \cup (IF b = <<>> THEN {} ELSE {<<Head(b), "!">> \o Tail(b)})

UriPrefix == <<"d", "a", "t", "a", ":", "m", ";", "b", "a", "s", "e", "6", "4", ",">>
UriPrefix2 == <<"d", "a", "t", "a", ":", "a", "/", "b", ";", "x", "=", "1", ";", "b", "a", "s", "e", "6", "4", ",">>
UriNoComma == <<"d", "a", "t", "a", ":", "m", ";">>

Payloads ==
  {pre \o sb : pre \in {<<>>, UriPrefix, UriPrefix2, UriNoComma},
               sb \in UNION {Spoiled(b) : b \in Bodies}}
  \cup {<<" ">> \o pre \o b \o <<"\n">> : pre \in {<<>>, UriPrefix}, b \in Bodies}

NameDocx == Str(<<"a", ".", "d", "o", "c", "x">>)
NameXlsx == Str(<<"B", ".", "X", "L", "S", "X">>)
NameTxt  == Str(<<"c", ".", "t", "x", "t">>)
MimeSheet == Str(<<"x", "/", "S", "p", "r", "e", "a", "d", "s", "h", "e", "e", "t", "M", "L">>)
MimeWord == Str(<<"x", "/", "w", "o", "r", "d", "p", "r", "o", "c", "e", "s", "s", "i", "n", "g", "m", "l">>)

Inputs ==
  {NonObject(sh) : sh \in {"invalid", "array", "number", "string", "null"}}
  \cup {Obj(Str(p), Missing, nm[1], nm[2]) :
          p \in Payloads,
          nm \in {<<NameDocx, Missing>>, <<NameXlsx, EmptyStr>>,
                  <<NameTxt, MimeSheet>>, <<NameTxt, Null>>}}
  \cup {Obj(b, d, NameDocx, MimeSheet) :
          b \in {Missing, Null, Zero, EmptyStr, Five, AList},
          d \in {Missing, Five, Str(<<"A", "A", "=", "=">>), Str(<<"Q", "Q", "=", "=">>)}}
  \cup {Obj(Str(p), Missing, n, m) :
          p \in {<<"A", "A", "=", "=">>, <<"A", "Q", "=", "=">>, <<"A">>},
          n \in {Missing, Five, NameDocx, NameTxt},
          m \in {Zero, Five, AList, MimeWord}}

-----------------------------------------------------------------------------
(* main(), one action per stage.                                           *)

Result(s) == [text |-> s]

Init ==
  /\ pc = "start"
  /\ stdin = NonObject("none")
  /\ base64_data = Missing
  /\ name = Missing
  /\ mime = Missing
  /\ normalised_base64 = <<>>
  /\ kind = ""
  /\ raw_bytes = <<>>
  /\ text = <<>>
  /\ stdout = <<>>
  /\ calls = <<>>
  /\ structured = Return(<<>>)
  /\ wdoc = <<>> /\ wout = <<>> /\ cellIn = <<>> /\ cellOut = <<>>
  /\ fbArchive = <<>> /\ fbOut = <<>>

\* lines 145-148: payload.get on what is no dict raises AttributeError
ReadStdin ==
  /\ pc = "start"
  /\ \E input \in Inputs :
       LET payload == safe_load_json(input)
       IN  /\ stdin' = input
           /\ IF payload.shape # "object"
              THEN /\ pc' = "raised"
                   /\ UNCHANGED <<base64_data, name, mime>>
              ELSE /\ pc' = "loaded"
                   /\ base64_data' = Or(Or(payload.base64, payload.data), EmptyStr)
                   /\ name' = Or(payload.name, EmptyStr)
                   /\ mime' = Or(payload.mime, EmptyStr)
  /\ UNCHANGED <<normalised_base64, kind, raw_bytes, text, stdout, calls,
                 structured>>
  /\ UNCHANGED pureVars

\* lines 150-154: text.strip() on a truthy non-string raises AttributeError
Normalise ==
  /\ pc = "loaded"
  /\ IF Truthy(base64_data) /\ base64_data.t # "string"
     THEN pc' = "raised" /\ UNCHANGED <<normalised_base64, stdout>>
     ELSE /\ normalised_base64' = normalise_base64_payload(base64_data)
          /\ IF normalised_base64' = <<>>
             THEN pc' = "done" /\ stdout' = Append(stdout, Result(<<>>))
             ELSE pc' = "normalised" /\ UNCHANGED stdout
  /\ UNCHANGED <<stdin, base64_data, name, mime, kind, raw_bytes, text, calls,
                 structured>>
  /\ UNCHANGED pureVars

\* variant: an unknown kind does not end the run
ClassifyNoReturn ==
  /\ pc = "normalised"
  /\ calls' = Append(calls, "detect_kind")
  /\ LET k == detect_kind(name, mime)
     IN  IF ~k.ok THEN pc' = "raised" /\ UNCHANGED kind
         ELSE kind' = k.kind /\ pc' = "classified"
  /\ UNCHANGED <<stdin, base64_data, name, mime, normalised_base64, raw_bytes,
                 text, stdout, structured>>
  /\ UNCHANGED pureVars

\* lines 156-159
Classify ==
  /\ pc = "normalised"
  /\ calls' = Append(calls, "detect_kind")
  /\ LET k == detect_kind(name, mime)
     IN  IF ~k.ok THEN pc' = "raised" /\ UNCHANGED <<kind, stdout>>
         ELSE /\ kind' = k.kind
              /\ IF k.kind = ""
                 THEN pc' = "done" /\ stdout' = Append(stdout, Result(<<>>))
                 ELSE pc' = "classified" /\ UNCHANGED stdout
  /\ UNCHANGED <<stdin, base64_data, name, mime, normalised_base64, raw_bytes,
                 text, structured>>
  /\ UNCHANGED pureVars

\* lines 161-165
Decode ==
  /\ pc = "classified"
  /\ calls' = Append(calls, "b64decode")
  /\ LET d == b64decode(normalised_base64)
     IN  IF d.ok
         THEN pc' = "decoded" /\ raw_bytes' = d.bytes /\ UNCHANGED stdout
         ELSE /\ pc' = "done" /\ stdout' = Append(stdout, Result(<<>>))
              /\ UNCHANGED raw_bytes
  /\ UNCHANGED <<stdin, base64_data, name, mime, normalised_base64, kind, text,
                 structured>>
  /\ UNCHANGED pureVars

\* lines 167-173
Extract ==
  /\ pc = "decoded"
  /\ LET r == IF kind = "word" THEN extract_word_text(raw_bytes)
              ELSE extract_excel_text(raw_bytes)
     IN  /\ structured' = r
         /\ text' = IF r.ok THEN r.text ELSE <<>>
  /\ calls' = Append(calls, IF kind = "word" THEN "extract_word_text"
                            ELSE "extract_excel_text")
  /\ pc' = "extracted"
  /\ UNCHANGED <<stdin, base64_data, name, mime, normalised_base64, kind,
                 raw_bytes, stdout>>
  /\ UNCHANGED pureVars

\* variant: the fallback does not look at the structured text
FallbackUnguarded ==
  /\ pc = "extracted"
  /\ LET r == extract_fallback_xml_text(raw_bytes)
     IN  text' = IF r.ok THEN r.text ELSE <<>>
  /\ calls' = Append(calls, "extract_fallback_xml_text")
  /\ pc' = "flattened"
  /\ UNCHANGED <<stdin, base64_data, name, mime, normalised_base64, kind,
                 raw_bytes, stdout, structured>>
  /\ UNCHANGED pureVars

\* lines 175-179
Fallback ==
  /\ pc = "extracted"
  /\ Strip(text) = <<>>
  /\ LET r == extract_fallback_xml_text(raw_bytes)
     IN  text' = IF r.ok THEN r.text ELSE <<>>
  /\ calls' = Append(calls, "extract_fallback_xml_text")
  /\ pc' = "flattened"
  /\ UNCHANGED <<stdin, base64_data, name, mime, normalised_base64, kind,
                 raw_bytes, stdout, structured>>
  /\ UNCHANGED pureVars

\* line 181
Emit ==
  /\ \/ pc = "extracted" /\ Strip(text) # <<>>
     \/ pc = "flattened"
  /\ stdout' = Append(stdout, Result(text))
  /\ pc' = "done"
  /\ UNCHANGED <<stdin, base64_data, name, mime, normalised_base64, kind,
                 raw_bytes, text, calls, structured>>
  /\ UNCHANGED pureVars

Next == ReadStdin \/ Normalise \/ Classify \/ Decode \/ Extract \/ Fallback \/ Emit

Spec == Init /\ [][Next]_vars

-----------------------------------------------------------------------------
(* main() as a function of standard input: how the run ends and what it    *)
(* has written.                                                            *)

Raised == [pc |-> "raised", stdout |-> <<>>]
Emitted(s) == [pc |-> "done", stdout |-> <<Result(s)>>]

main_output(input) ==
  LET payload == safe_load_json(input)
      b == Or(Or(payload.base64, payload.data), EmptyStr)
      n == Or(payload.name, EmptyStr)
      m == Or(payload.mime, EmptyStr)
      nb == normalise_base64_payload(b)
      k == detect_kind(n, m)
      d == b64decode(nb)
      r == IF k.kind = "word" THEN extract_word_text(d.bytes)
           ELSE extract_excel_text(d.bytes)
      t == IF r.ok THEN r.text ELSE <<>>
      f == extract_fallback_xml_text(d.bytes)
  IN  IF payload.shape # "object" THEN Raised
      ELSE IF Truthy(b) /\ b.t # "string" THEN Raised
      ELSE IF nb = <<>> THEN Emitted(<<>>)
      ELSE IF ~k.ok THEN Raised
      ELSE IF k.kind = "" THEN Emitted(<<>>)
      ELSE IF ~d.ok THEN Emitted(<<>>)
      ELSE IF Strip(t) # <<>> THEN Emitted(t)
      ELSE Emitted(IF f.ok THEN f.text ELSE <<>>)

-----------------------------------------------------------------------------
(* Properties of main().                                                   *)

Terminal == pc \in {"done", "raised"}
Called(f) == \E i \in 1..Len(calls) : calls[i] = f
Extractors == {"extract_word_text", "extract_excel_text"}
ReachedExtraction == \E f \in Extractors : Called(f)
StructuredText == IF structured.ok THEN structured.text ELSE <<>>

\* the stepwise run and the function agree on every input
MainAgrees == Terminal => [pc |-> pc, stdout |-> stdout] = main_output(stdin)

\* C1: for every content of standard input main() raises nothing and
\* writes exactly one JSON object, whose only key is "text".
C1_AlwaysOneTextObject ==
  /\ pc # "raised"
  /\ pc = "done" => Len(stdout) = 1 /\ DOMAIN stdout[1] = {"text"}

\* C2: in a run that reaches structured extraction the fallback is invoked
\* exactly when the structured extractor gave blank text (also by raising);
\* otherwise the structured text is emitted unchanged.
C2_FallbackIffStructuredBlank ==
  /\ Called("extract_fallback_xml_text") =>
       ReachedExtraction /\ Strip(StructuredText) = <<>>
  /\ pc = "done" /\ ReachedExtraction =>
       /\ Called("extract_fallback_xml_text") <=> Strip(StructuredText) = <<>>
       /\ Strip(StructuredText) # <<>> => stdout = <<Result(structured.text)>>

C2_Witness ==
  /\ pc = "done"
  /\ ~structured.ok
  /\ Called("extract_fallback_xml_text")
  /\ stdout # <<>> /\ stdout[1].text # <<>>

\* C3: once detect_kind has returned "" the run is over with {"text": ""}
\* and has neither decoded the base64 nor opened an archive.
C3_UnknownKindShortCircuits ==
  Called("detect_kind") /\ detect_kind(name, mime) = [ok |-> TRUE, kind |-> ""] =>
    /\ pc = "done"
    /\ stdout = <<Result(<<>>)>>
    /\ ~Called("b64decode")
    /\ \A f \in Extractors \cup {"extract_fallback_xml_text"} : ~Called(f)

C3_Witness ==
  /\ pc = "done"
  /\ calls = <<"detect_kind">>
  /\ name = NameTxt
  /\ b64decode(normalised_base64).ok
  /\ ZipFile(b64decode(normalised_base64).bytes).ok

\* well-formed base64: alphabet characters in groups of four, the last
\* group ending in at most two "="
WellFormedBase64(s) ==
  /\ Len(s) % 4 = 0
  /\ \A i \in 1..Len(s) :
       \/ B64Val(s[i]) < 64
       \/ s[i] = "=" /\ i >= Len(s) - 1 /\ (i = Len(s) - 1 => s[Len(s)] = "=")

\* C4: a recognised kind with a non-empty payload that is not well-formed
\* base64 ends without raising, with {"text": ""}.
C4_MalformedBase64YieldsEmpty ==
  /\ Terminal
  /\ Called("detect_kind") /\ detect_kind(name, mime).ok /\ kind # ""
  /\ ~WellFormedBase64(normalised_base64)
  => pc = "done" /\ stdout = <<Result(<<>>)>>

\* C5: a payload sent as "data:<mime>;base64,P" ends as the payload P sent
\* alone does, and the normalised payload is what follows the first comma
\* of a trimmed string starting with "data:", the trimmed string otherwise.
UriPrefixes == {UriPrefix, UriPrefix2}
WithPayload(input, p) == [input EXCEPT !.base64 = Str(p)]

C5_DataUriSameAsPayload ==
  /\ Terminal /\ stdin.shape = "object" =>
       \A pre \in UriPrefixes :
         StartsWith(stdin.base64.s, pre) =>
           [pc |-> pc, stdout |-> stdout]
             = main_output(WithPayload(stdin,
                 SubSeq(stdin.base64.s, Len(pre) + 1, Len(stdin.base64.s))))
  /\ pc \notin {"start", "loaded", "raised"} /\ base64_data.t = "string" =>
       LET trimmed == Strip(base64_data.s)
           commas == {i \in 1..Len(trimmed) : trimmed[i] = ","}
       IN  IF StartsWith(trimmed, DataPrefix) /\ commas # {}
           THEN \E i \in commas :
                  /\ \A j \in commas : i <= j
                  /\ normalised_base64 = SubSeq(trimmed, i + 1, Len(trimmed))
           ELSE normalised_base64 = trimmed

C5_Witness ==
  /\ pc = "done"
  /\ StartsWith(stdin.base64.s, UriPrefix2)
  /\ normalised_base64 = <<"A", "Q", "=", "=">>
  /\ Called("extract_fallback_xml_text")
  /\ stdout[1].text # <<>>

\* C10: when a worksheet entry or the shared-strings entry does not parse,
\* extract_excel_text raises, no worksheet row is emitted and the text is
\* the fallback's alone.
BrokenSheet(archive) ==
  \/ \E i \in 1..Len(archive) :
       IsWorksheet(archive[i].name) /\ ~fromstring(archive[i].content).ok
  \/ HasEntry(archive, NameShared)
       /\ ~fromstring(ReadEntry(archive, NameShared)).ok

C10_ExcelAllOrNothing ==
  /\ pc = "done" /\ Called("extract_excel_text")
  /\ ZipFile(raw_bytes).ok /\ BrokenSheet(ZipFile(raw_bytes).archive)
  => /\ ~structured.ok
     /\ calls = <<"detect_kind", "b64decode", "extract_excel_text",
                  "extract_fallback_xml_text">>
     /\ stdout = <<Result(fallback_xml_text(ZipFile(raw_bytes).archive).text)>>
     /\ ~Contains(stdout[1].text, <<"A", " ", "C", " ", "5">>)

C10_Witness ==
  /\ pc = "done" /\ Called("extract_excel_text")
  /\ ZipFile(raw_bytes).ok
  /\ \E i \in 1..Len(ZipFile(raw_bytes).archive) :
       /\ IsWorksheet(ZipFile(raw_bytes).archive[i].name)
       /\ ~fromstring(ZipFile(raw_bytes).archive[i].content).ok
       /\ i > 1 /\ IsWorksheet(ZipFile(raw_bytes).archive[i - 1].name)
  /\ stdout # <<>> /\ stdout[1].text # <<>>

-----------------------------------------------------------------------------
(* extract_word_text on generated documents.                               *)

\* character data written so that the parser reads back s
XmlEscape(s) ==
  Replace(Replace(Replace(s, <<"&">>, EntAmp), <<"<">>, EntLt), <<">">>, EntGt)

\* a w:t element with the given text (None: an element without text)
RunTokens(o) ==
  IF o = None THEN <<Open(WT), Close(WT)>>
  ELSE <<Open(WT), Chars(XmlEscape(o[1])), Close(WT)>>

RunTexts == {None, Some(<<" ">>), Some(<<"a">>), Some(<<"b", "&">>), Some(<<"c", "\n", "d">>)}

WordShapes == {"flat", "paragraphs", "rootrun"}

\* word/document.xml with the runs directly below the root, each in its own
\* paragraph, or below a root that is a w:t element itself
WordDoc(d) ==
  LET runs == [i \in 1..Len(d.runs) |->
                 IF d.shape = "paragraphs"
                 THEN <<Open(WP)>> \o RunTokens(d.runs[i]) \o <<Close(WP)>>
                 ELSE RunTokens(d.runs[i])]
  IN  IF d.shape = "rootrun"
      THEN <<Open(WT), Chars(<<"r">>)>> \o Concat(runs) \o <<Close(WT)>>
      ELSE <<Open(WDoc)>> \o Concat(runs) \o <<Close(WDoc)>>

WordDocs == [shape : WordShapes, runs : SeqsUpTo(RunTexts, MaxRuns)]

InitWord ==
  /\ pc = "word_in"
  /\ wdoc \in WordDocs
  /\ wout = <<>>
  /\ stdin = NonObject("none") /\ base64_data = Missing /\ name = Missing
  /\ mime = Missing /\ normalised_base64 = <<>> /\ kind = "" /\ raw_bytes = <<>>
  /\ text = <<>> /\ stdout = <<>> /\ calls = <<>> /\ structured = Return(<<>>)
  /\ cellIn = <<>> /\ cellOut = <<>> /\ fbArchive = <<>> /\ fbOut = <<>>

WordExtract ==
  /\ pc = "word_in"
  /\ wout' = word_text(<<Entry(NameProps, Props), Entry(NameDocument, WordDoc(wdoc))>>)
  /\ pc' = "word_out"
  /\ UNCHANGED <<wdoc, cellIn, cellOut, fbArchive, fbOut>>
  /\ UNCHANGED mainVars

NextWord == WordExtract

SpecWord == InitWord /\ [][NextWord]_vars

\* s.split("\n"), and no line at all for the empty string
Lines(s) ==
  LET index == [i \in 1..Len(s) |-> i]
      breaks == SelectSeq(index, LAMBDA i : s[i] = "\n")
      from(k) == IF k = 1 THEN 1 ELSE breaks[k - 1] + 1
      upto(k) == IF k = Len(breaks) + 1 THEN Len(s) ELSE breaks[k] - 1
  IN  IF s = <<>> THEN <<>>
      ELSE [k \in 1..(Len(breaks) + 1) |-> SubSeq(s, from(k), upto(k))]

\* the texts of the given runs that are not blank, in order
Surviving(runs) ==
  LET texts == [i \in 1..Len(runs) |-> OrEmpty(runs[i])]
  IN  SelectSeq(texts, LAMBDA t : \E i \in 1..Len(t) : ~IsSpace(t[i]))

\* the text of every w:t element of the document, the root included
AllRuns(d) == IF d.shape = "rootrun" THEN <<Some(<<"r">>)>> \o d.runs ELSE d.runs

\* C6 as stated: N runs, M of them blank, give exactly N - M lines, one per
\* surviving run, in document order.
C6_OneLinePerSurvivingRun ==
  pc = "word_out" =>
    /\ wout.ok
    /\ Lines(wout.text) = Surviving(wdoc.runs)
    /\ Len(Lines(wout.text))
         = Len(wdoc.runs) - Cardinality({i \in 1..Len(wdoc.runs) :
                                          Strip(OrEmpty(wdoc.runs[i])) = <<>>})

\* C6 amended: the result is the non-blank texts of the w:t elements below
\* the root, in document order, joined by newlines; that is one line per
\* surviving run when no surviving text holds a newline itself.
C6_SurvivingRunsJoined ==
  pc = "word_out" =>
    /\ wout.ok
    /\ wout.text = Join(NL, Surviving(wdoc.runs))
    /\ (\A i \in 1..Len(Surviving(wdoc.runs)) :
          ~Contains(Surviving(wdoc.runs)[i], NL))
       => /\ Lines(wout.text) = Surviving(wdoc.runs)
          /\ Len(Lines(wout.text))
               = Len(wdoc.runs) - Cardinality({i \in 1..Len(wdoc.runs) :
                                                Strip(OrEmpty(wdoc.runs[i])) = <<>>})

C6_Witness ==
  /\ pc = "word_out"
  /\ wdoc.shape = "paragraphs"
  /\ wdoc.runs = <<Some(<<"b", "&">>), Some(<<" ">>), Some(<<"a">>)>>
  /\ wout.text = <<"b", "&", "\n", "a">>

-----------------------------------------------------------------------------
(* _cell_value and the row it belongs to, on generated cells.              *)

\* the value node of a generated cell
ValueNodes ==
  {[has |-> FALSE, text |-> None], [has |-> TRUE, text |-> None]}
  \cup {[has |-> TRUE, text |-> Some(x)] :
          x \in {<<"0">>, <<"1">>, <<"2">>, <<"9", "9">>, <<"-", "1">>, <<" ", "3", " ">>, <<"x">>}}

\* the inline-string child of a generated cell, with its s:t texts
InlineNodes ==
  {[has |-> FALSE, ts |-> <<>>]}
  \cup {[has |-> TRUE, ts |-> ts] :
          ts \in {<<>>, <<Some(<<"C">>)>>, <<Some(<<"C">>), Some(<<"D">>)>>, <<None>>}}

Tables == SeqsUpTo({<<"A">>, <<"B", " ">>}, MaxTable)

CellInputs ==
  [t : {<<>>, TypeShared}, v : ValueNodes, is : InlineNodes,
   table : Tables, follower : BOOLEAN]

InlineTokens(n) ==
  IF ~n.has THEN <<>>
  ELSE <<Open(SIS)>>
       \o Concat([i \in 1..Len(n.ts) |->
                    IF n.ts[i] = None THEN <<Open(ST), Close(ST)>>
                    ELSE <<Open(ST), Chars(n.ts[i][1]), Close(ST)>>])
       \o <<Close(SIS)>>

ValueTokens(n) ==
  IF ~n.has THEN <<>>
  ELSE IF n.text = None THEN <<Open(SV), Close(SV)>>
  ELSE <<Open(SV), Chars(n.text[1]), Close(SV)>>

CellTokens(c) ==
  <<OpenT(SC, c.t)>> \o InlineTokens(c.is) \o ValueTokens(c.v) \o <<Close(SC)>>

\* a worksheet of one row: the cell, then possibly the literal cell "X"
CellSheet(c) ==
  <<Open(SWs), Open(SRow)>> \o CellTokens(c)
  \o (IF c.follower THEN ValCell(<<"X">>) ELSE <<>>)
  \o <<Close(SRow), Close(SWs)>>

\* xl/sharedStrings.xml holding the table; no entry for the empty table
CellArchive(c) ==
  (IF c.table = <<>> THEN <<>>
   ELSE <<Entry(NameShared,
                <<Open(SSst)>>
                \o Concat([i \in 1..Len(c.table) |->
                             <<Open(ST), Chars(c.table[i]), Close(ST)>>])
                \o <<Close(SSst)>>)>>)
  \o <<Entry(NameSheet1, CellSheet(c))>>

InitCell ==
  /\ pc = "cell_in"
  /\ cellIn \in CellInputs
  /\ cellOut = <<>>
  /\ stdin = NonObject("none") /\ base64_data = Missing /\ name = Missing
  /\ mime = Missing /\ normalised_base64 = <<>> /\ kind = "" /\ raw_bytes = <<>>
  /\ text = <<>> /\ stdout = <<>> /\ calls = <<>> /\ structured = Return(<<>>)
  /\ wdoc = <<>> /\ wout = <<>> /\ fbArchive = <<>> /\ fbOut = <<>>

CellExtract ==
  /\ pc = "cell_in"
  /\ cellOut' =
       [value |-> cell_value(fromstring(CellTokens(cellIn)).root,
                             load_shared_strings(CellArchive(cellIn)).values),
        sheet |-> excel_text(CellArchive(cellIn))]
  /\ pc' = "cell_out"
  /\ UNCHANGED <<wdoc, wout, cellIn, fbArchive, fbOut>>
  /\ UNCHANGED mainVars

NextCell == CellExtract

SpecCell == InitCell /\ [][NextCell]_vars

\* the cell is a shared-string reference whose value is an integer outside
\* the table
OutOfRange(c) ==
  /\ c.t = TypeShared
  /\ c.v.has /\ c.v.text # None
  /\ ParseInt(c.v.text[1]).ok
  /\ \/ ParseInt(c.v.text[1]).val < 0
     \/ ParseInt(c.v.text[1]).val >= Len(c.table)

\* C7: an out-of-range shared-string reference resolves to "" without an
\* error, and the rest of its row is still emitted.
C7_OutOfRangeIsEmpty ==
  pc = "cell_out" /\ OutOfRange(cellIn) =>
    /\ cellOut.value = Some(<<>>)
    /\ cellOut.sheet.ok
    /\ cellOut.sheet.text = IF cellIn.follower THEN <<"X">> ELSE <<>>

C7_Witness ==
  /\ pc = "cell_out"
  /\ cellIn.t = TypeShared /\ cellIn.v.text = Some(<<"9", "9">>)
  /\ Len(cellIn.table) = 2 /\ cellIn.follower
  /\ cellOut.value = Some(<<>>)
  /\ cellOut.sheet.text = <<"X">>

InlineText(c) == Concat([i \in 1..Len(c.is.ts) |-> OrEmpty(c.is.ts[i])])
ValueText(c) == IF c.v.has THEN OrEmpty(c.v.text) ELSE <<>>

\* what the row makes of the returned value: `_cell_value(...) or ""`
Resolved == OrEmpty(cellOut.value)

\* C8 as stated: a cell that is no shared-string reference and has an
\* inline-string child resolves to the concatenation of that child's text
\* nodes ("" when it holds none); the value node counts only without such
\* a child.
C8_InlineChildDecides ==
  pc = "cell_out" /\ cellIn.t # TypeShared =>
    Resolved = IF cellIn.is.has THEN InlineText(cellIn) ELSE ValueText(cellIn)

\* C8 amended: the concatenation is returned when the inline-string child
\* holds at least one text node; without the child, or with a child that
\* holds no text node, the value node's text is returned.
C8_InlineTextsDecide ==
  pc = "cell_out" /\ cellIn.t # TypeShared =>
    Resolved = IF cellIn.is.has /\ cellIn.is.ts # <<>>
               THEN InlineText(cellIn)
               ELSE ValueText(cellIn)

C8_Witness ==
  /\ pc = "cell_out"
  /\ cellIn.t # TypeShared
  /\ cellIn.is.ts = <<Some(<<"C">>), Some(<<"D">>)>>
  /\ cellIn.v.text = Some(<<"1">>)
  /\ cellOut.value = Some(<<"C", "D">>)

-----------------------------------------------------------------------------
(* extract_fallback_xml_text on generated archives.                        *)

InitFallback ==
  /\ pc = "fb_in"
  /\ fbArchive \in WordDocs
  /\ fbOut = <<>>
  /\ stdin = NonObject("none") /\ base64_data = Missing /\ name = Missing
  /\ mime = Missing /\ normalised_base64 = <<>> /\ kind = "" /\ raw_bytes = <<>>
  /\ text = <<>> /\ stdout = <<>> /\ calls = <<>> /\ structured = Return(<<>>)
  /\ wdoc = <<>> /\ wout = <<>> /\ cellIn = <<>> /\ cellOut = <<>>

FallbackExtract ==
  /\ pc = "fb_in"
  /\ fbOut' = fallback_xml_text(<<Entry(NameRels, Props),
                                  Entry(NameDocument, WordDoc(fbArchive))>>)
  /\ pc' = "fb_out"
  /\ UNCHANGED <<wdoc, wout, cellIn, cellOut, fbArchive>>
  /\ UNCHANGED mainVars

NextFallback == FallbackExtract

SpecFallback == InitFallback /\ [][NextFallback]_vars

\* the text content of a generated document: its words, one blank apart
TextContent(d) ==
  LET runs == AllRuns(d)
  IN  Join(SP, Split(Join(SP, [i \in 1..Len(runs) |-> OrEmpty(runs[i])])))

\* C9: the fallback's line for an XML entry holds the entry's text content
\* only; every element tag is gone.
C9_NoTagMarkup ==
  pc = "fb_out" =>
    /\ fbOut.ok
    /\ fbOut.text = TextContent(fbArchive)

====
